---- MODULE Spec2Model ----
(***************************************************************************)
(* State-machine model of six pieces of the Galaxy client:                 *)
(*   - the broadcasts store (useBroadcastsStore),                          *)
(*   - the basic data provider (SimpleProviderMixin),                      *)
(*   - the store-backed data provider (StoreProvider),                     *)
(*   - the workflow editor toolbar (Workflow/Editor/Options.vue),          *)
(*   - the tool panel (ToolPanel),                                         *)
(*   - the filter query language (Filtering) over the history filters.     *)
(* Each piece has its own specification; the variables of the other pieces *)
(* stay at their initial values.                                           *)
(***************************************************************************)
EXTENDS Integers, Sequences, FiniteSets, TLC

\* ------------------------------------------------------------------ bounds
MaxId == 2
MaxTime == 1
MaxList == 2
MaxPending == 2

\* ------------------------------------------------------------------ state
\* the broadcasts store (useBroadcastsStore)
VARIABLES
    broadcasts,            \* ref<BroadcastNotification[]>
    loadingBroadcasts,     \* ref<boolean>
    dismissedBroadcasts,   \* persisted map: id -> expiration_time of the record
    initialised,           \* the store's setup function has run to its end
    clearRuns,             \* how often clearExpiredDismissedBroadcasts ran
    dismissedHere,         \* id -> expiration_time dismissBroadcast was last called with
    now,                   \* the wall clock read by new Date()
    fetches,               \* fetchAllBroadcasts() calls in flight, oldest first;
                           \* an entry is TRUE once a younger call settled before it
    last                   \* the step taken last and what it was given

bvars == <<broadcasts, loadingBroadcasts, dismissedBroadcasts, initialised,
           clearRuns, dismissedHere, now, fetches, last>>

\* the basic provider (a component built on SimpleProviderMixin)
VARIABLES
    created,     \* the component instance exists (data() and the watcher ran)
    id,          \* props.id
    loading,     \* data().loading
    item,        \* data().item
    requests,    \* axios calls in flight, oldest first
    plast        \* the step taken last and what it was given

pvars == <<created, id, loading, item, requests, plast>>

\* the store-backed provider (a component built by StoreProvider)
VARIABLES
    screated,    \* created() has run
    attributes,  \* this.attributes, the provider's props handed to the store
    sloading,    \* data().loading
    error,       \* data().error
    calls,       \* store actions in flight, oldest first; an entry is TRUE
                 \* once a younger call settled before it
    slast        \* the step taken last and what it was given

svars == <<screated, attributes, sloading, error, calls, slast>>

\* the workflow editor toolbar (Workflow/Editor/Options.vue)
VARIABLES
    isNewTempWorkflow,      \* props.isNewTempWorkflow
    hasChanges,             \* props.hasChanges
    hasInvalidConnections,  \* props.hasInvalidConnections
    dialogs,                \* confirm() calls awaited by onSave, oldest first;
                            \* an entry is isNewTempWorkflow at the click
    events,                 \* what the component emitted so far, oldest first
    olast                   \* the step taken last and what it was given

ovars == <<isNewTempWorkflow, hasChanges, hasInvalidConnections, dialogs,
           events, olast>>

\* the tool panel (ToolPanel)
VARIABLES
    chain,             \* where the promise chain of onMounted stands
    arePanelsFetched,  \* ref(false)
    defaultPanelView,  \* ref("")
    panelViews,        \* ref(null)
    query,             \* ref("")
    currentPanelView,  \* toolStore.currentPanelView
    inits,             \* initializeTools() runs started by the watcher
    tlast              \* the step taken last

tvars == <<chain, arePanelsFetched, defaultPanelView, panelViews, query,
           currentPanelView, inits, tlast>>

\* the filter query language (Filtering) of a list view
VARIABLES
    filters,   \* which validFilters the Filtering object was built from
    text,      \* the filter text, as its tokens
    fquery,    \* parse(text)
    out,       \* toString(fquery)
    requery,   \* parse(out)
    fitem,     \* the item the predicate was applied to
    verdict,   \* getFilterPredicate(fquery)(fitem)
    fpc        \* what was computed last

fvars == <<filters, text, fquery, out, requery, fitem, verdict, fpc>>

vars == <<bvars, pvars, svars, ovars, tvars, fvars>>
\* what a step of one component leaves alone
notBroadcasts == <<pvars, svars, ovars, tvars, fvars>>
notProvider == <<bvars, svars, ovars, tvars, fvars>>
notStoreProvider == <<bvars, pvars, ovars, tvars, fvars>>
notOptions == <<bvars, pvars, svars, tvars, fvars>>
notToolPanel == <<bvars, pvars, svars, ovars, fvars>>
notFiltering == <<bvars, pvars, svars, ovars, tvars>>

\* ------------------------------------------------------- broadcasts store

\* expiration_time absent (undefined, null or "") on a broadcast or a record
NoExp == -1

Ids == 1..MaxId
Times == 0..MaxTime
ExpTimes == {NoExp} \cup Times
\* The server sets a broadcast's create_time once: here the id decides it.
CreateTimeOf(bid) == bid - 1
Broadcast == {[id |-> i, create_time |-> CreateTimeOf(i), expiration_time |-> e] :
                  i \in Ids, e \in ExpTimes}
BroadcastLists == UNION {[1..n -> Broadcast] : n \in 0..MaxList}
DismissedMaps == UNION {[S -> ExpTimes] : S \in SUBSET Ids}

Range(s) == {s[i] : i \in DOMAIN s}
IdsOf(s) == {s[i].id : i \in DOMAIN s}
\* last: op names the step, data is what it was given (kept for a fulfilled
\* load and a dismissal), late says the fulfilled fetch was overtaken by a
\* younger one, dropped says the step filtered something out, lost holds the
\* expiration_time of every broadcast or record the step filtered out.
Did(op) ==
    [op |-> op, data |-> <<>>, late |-> FALSE, dropped |-> FALSE, lost |-> {}]

\* --- mergeObjectListsById(list, newList, sortKey, sortDirection): one entry
\* per id, an entry of newList (and a later entry of the same list) replacing
\* an earlier one, ordered by create_time descending; equal keys keep the
\* order in which their ids first appeared.
RECURSIVE DedupById(_)
DedupById(s) ==
    IF s = <<>> THEN <<>>
    ELSE LET bid == s[1].id
             lastIdx == CHOOSE i \in DOMAIN s :
                            /\ s[i].id = bid
                            /\ \A j \in DOMAIN s : j > i => s[j].id # bid
             rest == SelectSeq(Tail(s), LAMBDA b : b.id # bid)
         IN <<s[lastIdx]>> \o DedupById(rest)

RECURSIVE InsertDesc(_, _)
InsertDesc(b, s) ==
    IF s = <<>> THEN <<b>>
    ELSE IF s[1].create_time >= b.create_time
         THEN <<s[1]>> \o InsertDesc(b, Tail(s))
         ELSE <<b>> \o s

RECURSIVE OrderByCreateTimeDesc(_)
OrderByCreateTimeDesc(s) ==
    IF s = <<>> THEN <<>>
    ELSE LET n == Len(s)
         IN InsertDesc(s[n], OrderByCreateTimeDesc(SubSeq(s, 1, n - 1)))

mergeObjectListsById(list, newList) ==
    OrderByCreateTimeDesc(DedupById(list \o newList))

\* --- hasExpired(expirationTimeStr)
\* (mutant: no test for a missing expiration_time, which then counts as past)
hasExpired_Unguarded(expirationTime) == now > expirationTime

\* (mutant: the comparison turned round)
hasExpired_Reversed(expirationTime) ==
    IF expirationTime = NoExp THEN FALSE ELSE expirationTime > now

hasExpired(expirationTime) ==
    IF expirationTime = NoExp THEN FALSE ELSE now > expirationTime

\* --- activeBroadcasts (computed)
\* (mutant: the dismissals are not looked at)
activeBroadcasts_Unfiltered == broadcasts

activeBroadcasts ==
    SelectSeq(broadcasts, LAMBDA b : b.id \notin DOMAIN dismissedBroadcasts)

\* --- clearExpiredDismissedBroadcasts(): the map it leaves
\* (mutant: the test negated, the records still valid are deleted)
clearExpiredDismissedBroadcasts_Negated ==
    LET kept == {k \in DOMAIN dismissedBroadcasts :
                     hasExpired(dismissedBroadcasts[k])}
    IN [k \in kept |-> dismissedBroadcasts[k]]

clearExpiredDismissedBroadcasts ==
    LET kept == {k \in DOMAIN dismissedBroadcasts :
                     ~hasExpired(dismissedBroadcasts[k])}
    IN [k \in kept |-> dismissedBroadcasts[k]]

\* The store's setup function: the refs get their initial values (Init) and
\* clearExpiredDismissedBroadcasts() is called once, before the store's
\* actions are handed out.
StoreSetup ==
    /\ ~initialised
    /\ dismissedBroadcasts' = clearExpiredDismissedBroadcasts
    /\ clearRuns' = clearRuns + 1
    /\ initialised' = TRUE
    /\ last' = [Did("setup") EXCEPT
                   !.dropped = DOMAIN dismissedBroadcasts' # DOMAIN dismissedBroadcasts,
                   !.lost = {dismissedBroadcasts[k] :
                                k \in DOMAIN dismissedBroadcasts \ DOMAIN dismissedBroadcasts'}]
    /\ UNCHANGED <<broadcasts, loadingBroadcasts, dismissedHere, now, fetches>>
    /\ UNCHANGED notBroadcasts

\* loadBroadcasts(), up to its await
LoadBroadcastsStart ==
    /\ initialised
    /\ Len(fetches) < MaxPending
    /\ loadingBroadcasts' = TRUE
    /\ fetches' = Append(fetches, FALSE)
    /\ last' = Did("loadStart")
    /\ UNCHANGED <<broadcasts, dismissedBroadcasts, initialised, clearRuns,
                   dismissedHere, now>>
    /\ UNCHANGED notBroadcasts

\* the fetches left in flight once the i-th has settled
Settle(i) ==
    [j \in 1..(Len(fetches) - 1) |->
        IF j < i THEN TRUE ELSE fetches[j + 1]]

\* (mutant: the response is stored as it came)
LoadedList_Raw(data) == data

\* (mutant: the response is merged into the list held, as updateBroadcasts does)
LoadedList_Merging(data) == mergeObjectListsById(broadcasts, data)

\* what the .then callback of loadBroadcasts assigns to broadcasts
LoadedList(data) == mergeObjectListsById(data, <<>>)

\* fetchAllBroadcasts() fulfils with data: .then, then .finally
LoadBroadcastsFulfil(i, data) ==
    /\ i \in DOMAIN fetches
    /\ broadcasts' = LoadedList(data)
    /\ loadingBroadcasts' = FALSE
    /\ fetches' = Settle(i)
    /\ last' = [Did("loadFulfil") EXCEPT !.data = data, !.late = fetches[i]]
    /\ UNCHANGED <<dismissedBroadcasts, initialised, clearRuns, dismissedHere, now>>
    /\ UNCHANGED notBroadcasts

\* (mutant: the flag is reset in .then, which a rejection skips)
LoadingAfterReject_InThen == loadingBroadcasts

\* loadingBroadcasts after a rejected fetch: the .finally callback
LoadingAfterReject == FALSE

\* fetchAllBroadcasts() rejects: .then is skipped, .finally runs
LoadBroadcastsReject(i) ==
    /\ i \in DOMAIN fetches
    /\ loadingBroadcasts' = LoadingAfterReject
    /\ fetches' = Settle(i)
    /\ last' = Did("loadReject")
    /\ UNCHANGED <<broadcasts, dismissedBroadcasts, initialised, clearRuns,
                   dismissedHere, now>>
    /\ UNCHANGED notBroadcasts

\* (mutant: the merge without the filter)
UpdatedList_Unfiltered(broadcastList) ==
    mergeObjectListsById(broadcasts, broadcastList)

\* what updateBroadcasts(broadcastList) assigns to broadcasts
UpdatedList(broadcastList) ==
    SelectSeq(mergeObjectListsById(broadcasts, broadcastList),
              LAMBDA b : ~hasExpired(b.expiration_time))

updateBroadcasts(broadcastList) ==
    /\ initialised
    /\ broadcasts' = UpdatedList(broadcastList)
    /\ LET merged == mergeObjectListsById(broadcasts, broadcastList)
       IN last' = [Did("update") EXCEPT
                      !.dropped = Len(broadcasts') < Len(merged),
                      !.lost = {b.expiration_time : b \in Range(merged) \ Range(broadcasts')}]
    /\ UNCHANGED <<loadingBroadcasts, dismissedBroadcasts, initialised,
                   clearRuns, dismissedHere, now, fetches>>
    /\ UNCHANGED notBroadcasts

\* (mutant: the map is replaced by one holding the new record alone)
DismissedWith_Only(broadcast) ==
    [k \in {broadcast.id} |-> broadcast.expiration_time]

\* the map dismissBroadcast(broadcast) leaves
DismissedWith(broadcast) ==
    [k \in DOMAIN dismissedBroadcasts \cup {broadcast.id} |->
        IF k = broadcast.id THEN broadcast.expiration_time
        ELSE dismissedBroadcasts[k]]

dismissBroadcast(broadcast) ==
    /\ initialised
    /\ dismissedBroadcasts' = DismissedWith(broadcast)
    /\ dismissedHere' = [k \in DOMAIN dismissedHere \cup {broadcast.id} |->
                            IF k = broadcast.id THEN broadcast.expiration_time
                            ELSE dismissedHere[k]]
    /\ last' = [Did("dismiss") EXCEPT !.data = <<broadcast>>]
    /\ UNCHANGED <<broadcasts, loadingBroadcasts, initialised, clearRuns,
                   now, fetches>>
    /\ UNCHANGED notBroadcasts

\* time passes
Tick ==
    /\ now < MaxTime
    /\ now' = now + 1
    /\ last' = Did("tick")
    /\ UNCHANGED <<broadcasts, loadingBroadcasts, dismissedBroadcasts,
                   initialised, clearRuns, dismissedHere, fetches>>
    /\ UNCHANGED notBroadcasts

BroadcastsInit ==
    /\ broadcasts = <<>>
    /\ loadingBroadcasts = FALSE
    /\ dismissedBroadcasts \in DismissedMaps
    /\ dismissedHere = <<>>
    /\ initialised = FALSE
    /\ clearRuns = 0
    /\ now = 0
    /\ fetches = <<>>
    /\ last = Did("none")

BroadcastsNext ==
    \/ StoreSetup
    \/ LoadBroadcastsStart
    \/ \E i \in 1..MaxPending, data \in BroadcastLists : LoadBroadcastsFulfil(i, data)
    \/ \E i \in 1..MaxPending : LoadBroadcastsReject(i)
    \/ \E broadcastList \in BroadcastLists : updateBroadcasts(broadcastList)
    \/ \E broadcast \in Broadcast : dismissBroadcast(broadcast)
    \/ Tick

\* the store before anything has touched it, with nothing persisted
BroadcastsIdle ==
    /\ broadcasts = <<>>
    /\ loadingBroadcasts = FALSE
    /\ dismissedBroadcasts = <<>>
    /\ dismissedHere = <<>>
    /\ initialised = FALSE
    /\ clearRuns = 0
    /\ now = 0
    /\ fetches = <<>>
    /\ last = Did("none")

\* ------------------------------------- basic provider (SimpleProviderMixin)
MaxUrl == 2
MaxVer == 1

\* the id prop before the component exists
Undefined == 0
Urls == 1..MaxUrl
Null == [kind |-> "null"]
\* the body of a response: the resource at a url, in one of its versions
Data(url, ver) == [kind |-> "data", url |-> url, ver |-> ver]
Bodies == {Data(u, v) : u \in Urls, v \in 0..MaxVer}
\* a call in flight: its verb, this.url when it was made, and whether a
\* younger call has settled before it
Request(verb, url) == [verb |-> verb, url |-> url, late |-> FALSE]

\* plast: op names the step, url and data are the settled call's url and
\* response, late says a younger call settled before it, before is item as it
\* was before the step, thrown says the step ended in a rejected promise
PDid(op) ==
    [op |-> op, url |-> Undefined, data |-> Null, late |-> FALSE,
     before |-> item, thrown |-> FALSE]

PSettle(i) ==
    [j \in 1..(Len(requests) - 1) |->
        IF j < i THEN [requests[j] EXCEPT !.late = TRUE] ELSE requests[j + 1]]

\* (mutant: the watcher loads on every update of the prop)
ShouldLoad_Always(newVal, oldVal) == TRUE

\* the test of the id watcher's handler
ShouldLoad(newVal, oldVal) == newVal # oldVal

\* (mutant: a response for another id than the current one is ignored)
LoadedItem_Guarded(url, data) == IF url = id THEN data ELSE item

\* what load() assigns to item once its get has resolved
LoadedItem(url, data) == data

\* (mutant: the new properties are shown before the server has answered)
ItemWhileSaving_Optimistic(newProps) == Data(id, newProps)

\* item while the put of save(newProps) is in flight
ItemWhileSaving(newProps) == item

\* (mutant: loading is reset in a finally block)
LoadingAfterFailure_Finally == FALSE

\* loading after a rejected get or put: load() and save() have no catch and
\* no finally, the line that resets loading is not reached
LoadingAfterFailure == loading

\* load(), up to its await: loading is set and the get leaves for this.url
LoadCall(url) ==
    /\ loading' = TRUE
    /\ requests' = Append(requests, Request("get", url))
    /\ UNCHANGED item

\* the component is created with id = v: data() gives loading and item
\* their initial values (Init), the immediate watcher runs handler(v, undefined)
Create(v) ==
    /\ ~created
    /\ created' = TRUE
    /\ id' = v
    /\ IF ShouldLoad(v, Undefined) THEN LoadCall(v)
       ELSE UNCHANGED <<loading, item, requests>>
    /\ plast' = PDid("create")
    /\ UNCHANGED notProvider

\* the parent sets the id prop to v; the watcher runs handler(v, id)
SetId(v) ==
    /\ created
    /\ Len(requests) < MaxPending
    /\ id' = v
    /\ IF ShouldLoad(v, id) THEN LoadCall(v)
       ELSE UNCHANGED <<loading, item, requests>>
    /\ plast' = PDid("setId")
    /\ UNCHANGED created
    /\ UNCHANGED notProvider

\* the get of a load() resolves with data
LoadResolve(i, ver) ==
    /\ i \in DOMAIN requests
    /\ requests[i].verb = "get"
    /\ LET data == Data(requests[i].url, ver)
       IN /\ item' = LoadedItem(requests[i].url, data)
          /\ plast' = [PDid("loadResolve") EXCEPT !.url = requests[i].url,
                           !.data = data, !.late = requests[i].late]
    /\ loading' = FALSE
    /\ requests' = PSettle(i)
    /\ UNCHANGED <<created, id>>
    /\ UNCHANGED notProvider

\* the get of a load() rejects: the await throws, load() ends there
LoadReject(i) ==
    /\ i \in DOMAIN requests
    /\ requests[i].verb = "get"
    /\ requests' = PSettle(i)
    /\ plast' = [PDid("loadReject") EXCEPT !.url = requests[i].url,
                     !.late = requests[i].late, !.thrown = TRUE]
    /\ loading' = LoadingAfterFailure
    /\ UNCHANGED <<created, id, item>>
    /\ UNCHANGED notProvider

\* save(newProps), up to its await
save(newProps) ==
    /\ created
    /\ Len(requests) < MaxPending
    /\ loading' = TRUE
    /\ item' = ItemWhileSaving(newProps)
    /\ requests' = Append(requests, Request("put", id))
    /\ plast' = PDid("save")
    /\ UNCHANGED <<created, id>>
    /\ UNCHANGED notProvider

\* the put of a save() resolves with data
SaveResolve(i, ver) ==
    /\ i \in DOMAIN requests
    /\ requests[i].verb = "put"
    /\ LET data == Data(requests[i].url, ver)
       IN /\ item' = data
          /\ plast' = [PDid("saveResolve") EXCEPT !.url = requests[i].url,
                           !.data = data, !.late = requests[i].late]
    /\ loading' = FALSE
    /\ requests' = PSettle(i)
    /\ UNCHANGED <<created, id>>
    /\ UNCHANGED notProvider

\* the put of a save() rejects: the await throws, save() ends there
SaveReject(i) ==
    /\ i \in DOMAIN requests
    /\ requests[i].verb = "put"
    /\ requests' = PSettle(i)
    /\ plast' = [PDid("saveReject") EXCEPT !.url = requests[i].url,
                     !.late = requests[i].late, !.thrown = TRUE]
    /\ loading' = LoadingAfterFailure
    /\ UNCHANGED <<created, id, item>>
    /\ UNCHANGED notProvider

ProviderIdle ==
    /\ created = FALSE
    /\ id = Undefined
    /\ loading = FALSE
    /\ item = Null
    /\ requests = <<>>
    /\ plast = [op |-> "none", url |-> Undefined, data |-> Null, late |-> FALSE,
                before |-> Null, thrown |-> FALSE]

ProviderNext ==
    \/ \E v \in Urls : Create(v)
    \/ \E v \in Urls : SetId(v)
    \/ \E i \in 1..MaxPending, ver \in 0..MaxVer : LoadResolve(i, ver)
    \/ \E i \in 1..MaxPending : LoadReject(i)
    \/ \E newProps \in 0..MaxVer : save(newProps)
    \/ \E i \in 1..MaxPending, ver \in 0..MaxVer : SaveResolve(i, ver)
    \/ \E i \in 1..MaxPending : SaveReject(i)

\* ---------------------------------- store-backed provider (StoreProvider)
MaxAttr == 2
MaxErr == 2

\* data().error before any failure
NoError == 0
Attrs == 1..MaxAttr
Errors == 1..MaxErr

\* slast: op names the step, err is the error the store action threw, late
\* says a younger call settled before this one, before is error as it was
\* before the step, thrown says the step ended in a rejected promise
SDid(op) ==
    [op |-> op, err |-> NoError, late |-> FALSE, before |-> error,
     thrown |-> FALSE]

SSettle(i) ==
    [j \in 1..(Len(calls) - 1) |-> IF j < i THEN TRUE ELSE calls[j + 1]]

\* the test of the $attrs watcher: JSON.stringify(newVal) != JSON.stringify(oldVal)
AttrsDiffer(newVal, oldVal) == newVal # oldVal

\* load() after the store action has resolved: the try block's last two lines
AfterAction ==
    [error |-> NoError, loading |-> FALSE, thrown |-> FALSE]

\* (mutant: no try/catch, the rejection leaves load() as in the basic provider)
AfterCatch_Uncaught(e) ==
    [error |-> error, loading |-> sloading, thrown |-> TRUE]

\* load() after the store action has thrown e: the catch block
AfterCatch(e) ==
    [error |-> e, loading |-> FALSE, thrown |-> FALSE]

\* load(), up to its await
StoreLoadCall ==
    /\ sloading' = TRUE
    /\ calls' = Append(calls, FALSE)
    /\ UNCHANGED error

\* created(): this.load()
StoreCreate(a) ==
    /\ ~screated
    /\ screated' = TRUE
    /\ attributes' = a
    /\ StoreLoadCall
    /\ slast' = SDid("create")
    /\ UNCHANGED notStoreProvider

\* the parent changes the provider's attributes; the $attrs watcher runs
SetAttrs(a) ==
    /\ screated
    /\ Len(calls) < MaxPending
    /\ attributes' = a
    /\ IF AttrsDiffer(a, attributes) THEN StoreLoadCall
       ELSE UNCHANGED <<sloading, error, calls>>
    /\ slast' = SDid("setAttrs")
    /\ UNCHANGED screated
    /\ UNCHANGED notStoreProvider

\* the store action of a load() resolves
StoreLoadResolve(i) ==
    /\ i \in DOMAIN calls
    /\ error' = AfterAction.error
    /\ sloading' = AfterAction.loading
    /\ calls' = SSettle(i)
    /\ slast' = [SDid("resolve") EXCEPT !.late = calls[i],
                     !.thrown = AfterAction.thrown]
    /\ UNCHANGED <<screated, attributes>>
    /\ UNCHANGED notStoreProvider

\* the store action of a load() throws e
StoreLoadReject(i, e) ==
    /\ i \in DOMAIN calls
    /\ error' = AfterCatch(e).error
    /\ sloading' = AfterCatch(e).loading
    /\ calls' = SSettle(i)
    /\ slast' = [SDid("reject") EXCEPT !.err = e, !.late = calls[i],
                     !.thrown = AfterCatch(e).thrown]
    /\ UNCHANGED <<screated, attributes>>
    /\ UNCHANGED notStoreProvider

StoreProviderIdle ==
    /\ screated = FALSE
    /\ attributes = 0
    /\ sloading = FALSE
    /\ error = NoError
    /\ calls = <<>>
    /\ slast = [op |-> "none", err |-> NoError, late |-> FALSE,
                before |-> NoError, thrown |-> FALSE]

StoreProviderNext ==
    \/ \E a \in Attrs : StoreCreate(a)
    \/ \E a \in Attrs : SetAttrs(a)
    \/ \E i \in 1..MaxPending : StoreLoadResolve(i)
    \/ \E i \in 1..MaxPending, e \in Errors : StoreLoadReject(i, e)

\* -------------------- workflow editor toolbar (Workflow/Editor/Options.vue)
\* clicks on save whose outcome is kept: emitted events plus open dialogs
MaxClicks == 3

ODid(op) == [op |-> op, confirmed |-> FALSE, atClick |-> FALSE]

\* --- emitSaveOrCreate(): the event it emits
emitSaveOrCreate_Swapped == IF isNewTempWorkflow THEN "onSave" ELSE "onCreate"

emitSaveOrCreate == IF isNewTempWorkflow THEN "onCreate" ELSE "onSave"

\* --- :disabled of the save button
SaveDisabled == ~isNewTempWorkflow /\ ~hasChanges

\* --- if (confirmed) of onSave
Confirmed(confirmed) == confirmed

Without(seq, i) == [j \in 1..(Len(seq) - 1) |-> IF j < i THEN seq[j] ELSE seq[j + 1]]

\* a click on the save button: onSave() up to its await, or to its end when
\* there is nothing to confirm
ClickSave ==
    /\ ~SaveDisabled
    /\ Len(events) + Len(dialogs) < MaxClicks
    /\ IF hasInvalidConnections
       THEN /\ dialogs' = Append(dialogs, isNewTempWorkflow)
            /\ events' = events
       ELSE /\ events' = Append(events, emitSaveOrCreate)
            /\ dialogs' = dialogs
    /\ olast' = [ODid("click") EXCEPT !.atClick = isNewTempWorkflow]
    /\ UNCHANGED <<isNewTempWorkflow, hasChanges, hasInvalidConnections>>
    /\ UNCHANGED notOptions

\* the confirm dialog of the i-th waiting onSave() resolves: the rest of onSave
ConfirmResolve(i, confirmed) ==
    /\ i \in 1..Len(dialogs)
    /\ dialogs' = Without(dialogs, i)
    /\ events' = IF Confirmed(confirmed)
                 THEN Append(events, emitSaveOrCreate)
                 ELSE events
    /\ olast' = [op |-> "confirm", confirmed |-> confirmed, atClick |-> dialogs[i]]
    /\ UNCHANGED <<isNewTempWorkflow, hasChanges, hasInvalidConnections>>
    /\ UNCHANGED notOptions

\* the parent hands the component other props
SetProps(n, c, v) ==
    /\ <<n, c, v>> # <<isNewTempWorkflow, hasChanges, hasInvalidConnections>>
    /\ isNewTempWorkflow' = n
    /\ hasChanges' = c
    /\ hasInvalidConnections' = v
    /\ olast' = ODid("props")
    /\ UNCHANGED <<dialogs, events>>
    /\ UNCHANGED notOptions

OptionsIdle ==
    /\ isNewTempWorkflow = FALSE
    /\ hasChanges = FALSE
    /\ hasInvalidConnections = FALSE
    /\ dialogs = <<>>
    /\ events = <<>>
    /\ olast = ODid("none")

\* the props are optional booleans handed over by the parent
OptionsStart ==
    /\ isNewTempWorkflow \in BOOLEAN
    /\ hasChanges \in BOOLEAN
    /\ hasInvalidConnections \in BOOLEAN
    /\ dialogs = <<>>
    /\ events = <<>>
    /\ olast = ODid("none")

OptionsNext ==
    \/ ClickSave
    \/ \E i \in 1..MaxClicks, confirmed \in BOOLEAN : ConfirmResolve(i, confirmed)
    \/ \E n \in BOOLEAN, c \in BOOLEAN, v \in BOOLEAN : SetProps(n, c, v)

\* ------------------------------------------------------ tool panel (ToolPanel)
MaxInits == 2

\* names of panel views; "" is the empty currentPanelView
ViewNames == {"default", "ontology"}
NoView == ""
\* panelViews: null, or the views object of the response (its keys)
PanelsNull == [null |-> TRUE, views |-> {}]
Views == {[null |-> FALSE, views |-> vs] : vs \in (SUBSET ViewNames) \ {{}}}
Queries == {"", "q"}

TDid(op) == [op |-> op]

\* --- .catch(...).finally(() => arePanelsFetched.value = true): the flag after
\* the chain ended, whichever way
FetchedAfterChain_ThenOnly(failed) == IF failed THEN arePanelsFetched ELSE TRUE

FetchedAfterChain(failed) == TRUE

\* --- the second watcher's test: if (!newVal && arePanelsFetched.value)
WatcherInitializes(newVal) == newVal = NoView /\ arePanelsFetched

\* onMounted: axios.get(api/tool_panels) is sent
Mount ==
    /\ chain = "unmounted"
    /\ chain' = "request"
    /\ tlast' = TDid("mount")
    /\ UNCHANGED <<arePanelsFetched, defaultPanelView, panelViews, query,
                   currentPanelView, inits>>
    /\ UNCHANGED notToolPanel

\* the request resolves: .then up to the first await of initializeTools
PanelsResolve(d, v) ==
    /\ chain = "request"
    /\ defaultPanelView' = d
    /\ panelViews' = v
    /\ chain' = "fetchTools"
    /\ tlast' = TDid("panelsResolve")
    /\ UNCHANGED <<arePanelsFetched, query, currentPanelView, inits>>
    /\ UNCHANGED notToolPanel

\* the request rejects: .then is skipped, .catch logs, .finally sets the flag
PanelsReject ==
    /\ chain = "request"
    /\ chain' = "failed"
    /\ arePanelsFetched' = FetchedAfterChain(TRUE)
    /\ tlast' = TDid("panelsReject")
    /\ UNCHANGED <<defaultPanelView, panelViews, query, currentPanelView, inits>>
    /\ UNCHANGED notToolPanel

\* initializeTools of the chain: toolStore.fetchTools() settles; a rejection
\* is caught inside initializeTools, so .then ends and .finally runs
ChainFetchTools(ok) ==
    /\ chain = "fetchTools"
    /\ IF ok
       THEN /\ chain' = "initView"
            /\ UNCHANGED arePanelsFetched
       ELSE /\ chain' = "done"
            /\ arePanelsFetched' = FetchedAfterChain(FALSE)
    /\ tlast' = TDid(IF ok THEN "fetchToolsOk" ELSE "fetchToolsFailed")
    /\ UNCHANGED <<defaultPanelView, panelViews, query, currentPanelView, inits>>
    /\ UNCHANGED notToolPanel

\* initializeTools of the chain: toolStore.initCurrentPanelView() settles
ChainInitView(ok) ==
    /\ chain = "initView"
    /\ chain' = "done"
    /\ arePanelsFetched' = FetchedAfterChain(FALSE)
    /\ tlast' = TDid(IF ok THEN "initViewOk" ELSE "initViewFailed")
    /\ UNCHANGED <<defaultPanelView, panelViews, query, currentPanelView, inits>>
    /\ UNCHANGED notToolPanel

\* the store changes currentPanelView (initCurrentPanelView, setCurrentPanelView
\* or another component): both watchers run
ViewChanges(v) ==
    /\ v # currentPanelView
    /\ WatcherInitializes(v) => Len(inits) < MaxInits
    /\ currentPanelView' = v
    /\ query' = ""
    /\ inits' = IF WatcherInitializes(v) THEN Append(inits, "fetchTools") ELSE inits
    /\ tlast' = TDid("viewChanges")
    /\ UNCHANGED <<chain, arePanelsFetched, defaultPanelView, panelViews>>
    /\ UNCHANGED notToolPanel

\* a store call of the i-th initializeTools() started by the watcher settles
WatcherInitStep(i, ok) ==
    /\ i \in 1..Len(inits)
    /\ inits' = IF ok /\ inits[i] = "fetchTools"
                THEN [inits EXCEPT ![i] = "initView"]
                ELSE Without(inits, i)
    /\ tlast' = TDid("watcherInit")
    /\ UNCHANGED <<chain, arePanelsFetched, defaultPanelView, panelViews, query,
                   currentPanelView>>
    /\ UNCHANGED notToolPanel

\* the tool box or the favorites button sets the query; both are rendered
\* only once arePanelsFetched is true
SetQuery(q) ==
    /\ arePanelsFetched
    /\ q # query
    /\ query' = q
    /\ tlast' = TDid("setQuery")
    /\ UNCHANGED <<chain, arePanelsFetched, defaultPanelView, panelViews,
                   currentPanelView, inits>>
    /\ UNCHANGED notToolPanel

ToolPanelIdle ==
    /\ chain = "unmounted"
    /\ arePanelsFetched = FALSE
    /\ defaultPanelView = ""
    /\ panelViews = PanelsNull
    /\ query = ""
    /\ currentPanelView = NoView
    /\ inits = <<>>
    /\ tlast = TDid("none")

\* the store may hold a panel view from an earlier visit
ToolPanelStart ==
    /\ chain = "unmounted"
    /\ arePanelsFetched = FALSE
    /\ defaultPanelView = ""
    /\ panelViews = PanelsNull
    /\ query = ""
    /\ currentPanelView \in ViewNames \cup {NoView}
    /\ inits = <<>>
    /\ tlast = TDid("none")

ToolPanelNext ==
    \/ Mount
    \/ \E d \in ViewNames, v \in Views : PanelsResolve(d, v)
    \/ PanelsReject
    \/ \E ok \in BOOLEAN : ChainFetchTools(ok)
    \/ \E ok \in BOOLEAN : ChainInitView(ok)
    \/ \E v \in ViewNames \cup {NoView} : ViewChanges(v)
    \/ \E i \in 1..MaxInits, ok \in BOOLEAN : WatcherInitStep(i, ok)
    \/ \E q \in Queries : SetQuery(q)

\* the store calls awaited by initializeTools are requests, which settle
ToolPanelFairness ==
    /\ WF_vars(\E ok \in BOOLEAN : ChainFetchTools(ok))
    /\ WF_vars(\E ok \in BOOLEAN : ChainInitView(ok))

\* ------------------------------------- filter query language (Filtering)
\* The Filtering class (utils/filtering) is written down from its contract;
\* the filter definitions are those of the history and the page list.
MaxTokens == 2
MaxHid == 2

\* a value is the sequence of its characters; "t" / "f" / "T" stand for the
\* words true / false / True, "1" / "2" for numbers
LowerChar(c) == IF c = "A" THEN "a" ELSE IF c = "T" THEN "t" ELSE c
Lower(v) == [i \in DOMAIN v |-> LowerChar(v[i])]
IsInfix(needle, hay) ==
    \E i \in 0..(Len(hay) - Len(needle)) : SubSeq(hay, i + 1, i + Len(needle)) = needle
toBool(v) == Lower(v) = <<"t">>
ToNumber(v) == IF v = <<"1">> THEN 1 ELSE 2

Texts == {<<"a">>, <<"A">>, <<"a", "b">>}
BoolTexts == {<<"t">>, <<"f">>, <<"T">>}
NumberTexts == {<<"1">>, <<"2">>}

\* --- validFilters: key -> type, handler(attribute), boolType
HistoryFilters ==
    [name    |-> [type |-> "String",  handler |-> "contains", attr |-> "name",    boolType |-> "default"],
     tag     |-> [type |-> "String",  handler |-> "contains", attr |-> "tags",    boolType |-> "default"],
     deleted |-> [type |-> "Boolean", handler |-> "equals",   attr |-> "deleted", boolType |-> "default"],
     hid_ge  |-> [type |-> "Number",  handler |-> "ge",       attr |-> "hid",     boolType |-> "default"]]

PageFilters ==
    [title     |-> [type |-> "String",  handler |-> "contains", attr |-> "title",     boolType |-> "default"],
     tag       |-> [type |-> "String",  handler |-> "contains", attr |-> "tag",       boolType |-> "default"],
     published |-> [type |-> "Boolean", handler |-> "equals",   attr |-> "published", boolType |-> "is"]]

FilterSets == {"history", "page"}
validFilters(f) == IF f = "history" THEN HistoryFilters ELSE PageFilters
\* the order in which toString writes the keys
KeyOrder(f) == IF f = "history" THEN <<"name", "tag", "deleted", "hid_ge">>
                                ELSE <<"title", "tag", "published">>
\* the filter a bare term goes to
DefaultKey(f) == IF f = "history" THEN "name" ELSE "title"

\* --- the tokens of a well-formed filter text: key:value, key:'value',
\* is:flag / is:not_flag, and bare terms
Bare == "(bare)"
Token(kind, key, value, quoted) ==
    [kind |-> kind, key |-> key, value |-> value, quoted |-> quoted]
Tokens(f) ==
    LET vf == validFilters(f) IN
    {Token("pair", k, v, q) : k \in {x \in DOMAIN vf : vf[x].type = "String"},
                              v \in Texts, q \in BOOLEAN}
    \cup {Token("pair", k, v, FALSE) :
              k \in {x \in DOMAIN vf : vf[x].type = "Boolean" /\ vf[x].boolType # "is"},
              v \in BoolTexts}
    \cup {Token("pair", k, v, FALSE) : k \in {x \in DOMAIN vf : vf[x].type = "Number"},
                                       v \in NumberTexts}
    \cup {Token("is", k, v, FALSE) : k \in {x \in DOMAIN vf : vf[x].boolType = "is"},
                                     v \in {<<"t">>, <<"f">>}}
    \cup {Token("bare", Bare, v, q) : v \in Texts, q \in BOOLEAN}
FilterTexts(f) == UNION {[1..n -> Tokens(f)] : n \in 0..MaxTokens}

\* --- a query: key -> value and whether it is exact (was quoted)
EmptyQuery == <<>>
Put(q, k, v) == [x \in DOMAIN q \cup {k} |-> IF x = k THEN v ELSE q[x]]
QueryValue(tok) ==
    IF tok.quoted THEN [value |-> tok.value, exact |-> TRUE]
                  ELSE [value |-> Lower(tok.value), exact |-> FALSE]

\* --- parse(text): the tokens are taken in turn, a later one for the same
\* filter replaces the earlier one
RECURSIVE ParseFrom(_, _, _)
ParseFrom(f, toks, q) ==
    IF toks = <<>> THEN q
    ELSE LET tok == Head(toks)
             k == IF tok.kind = "bare" THEN DefaultKey(f) ELSE tok.key
         IN ParseFrom(f, Tail(toks), Put(q, k, QueryValue(tok)))

parse(f, toks) == ParseFrom(f, toks, EmptyQuery)

\* --- toString(query): one token per active filter
TokenOf_Unquoted(f, k, qv) ==
    IF validFilters(f)[k].boolType = "is"
    THEN Token("is", k, qv.value, FALSE)
    ELSE Token("pair", k, qv.value, FALSE)

TokenOf(f, k, qv) ==
    IF validFilters(f)[k].boolType = "is"
    THEN Token("is", k, qv.value, FALSE)
    ELSE Token("pair", k, qv.value, qv.exact)

RECURSIVE WriteFrom(_, _, _)
WriteFrom(f, keys, q) ==
    IF keys = <<>> THEN <<>>
    ELSE IF Head(keys) \in DOMAIN q
         THEN <<TokenOf(f, Head(keys), q[Head(keys)])>> \o WriteFrom(f, Tail(keys), q)
         ELSE WriteFrom(f, Tail(keys), q)

toString(f, q) == WriteFrom(f, KeyOrder(f), q)

\* --- the handlers named by validFilters: contains(attr), equals(attr,
\* attr, toBool), compare(attr, "ge")
Handler(f, k, qv, it) ==
    LET def == validFilters(f)[k]
        attr == it[def.attr]
    IN CASE def.handler = "contains" ->
                IF qv.exact THEN attr = qv.value
                            ELSE IsInfix(qv.value, Lower(attr))
         [] def.handler = "equals" -> attr = toBool(qv.value)
         [] def.handler = "ge" -> attr >= ToNumber(qv.value)

\* --- getFilterPredicate(query)(item): the active filters are tried in turn
\* and the first handler that fails settles it
RECURSIVE TestFrom(_, _, _, _)
TestFrom(f, keys, q, it) ==
    IF keys = <<>> THEN TRUE
    ELSE IF Head(keys) \in DOMAIN q /\ ~Handler(f, Head(keys), q[Head(keys)], it)
         THEN FALSE
         ELSE TestFrom(f, Tail(keys), q, it)

getFilterPredicate_First(f, q, it) ==
    \A i \in 1..Len(KeyOrder(f)) :
        (KeyOrder(f)[i] \in DOMAIN q /\ \A j \in 1..(i - 1) : KeyOrder(f)[j] \notin DOMAIN q)
            => Handler(f, KeyOrder(f)[i], q[KeyOrder(f)[i]], it)

getFilterPredicate(f, q, it) == TestFrom(f, KeyOrder(f), q, it)

\* --- the items of the two lists
ItemTexts == {<<"a", "b">>, <<"A">>}
Items(f) ==
    IF f = "history"
    THEN [name : ItemTexts, tags : ItemTexts, deleted : BOOLEAN, hid : 1..MaxHid]
    ELSE [title : ItemTexts, tag : ItemTexts, published : BOOLEAN]
NoItem == [none |-> TRUE]

Parse ==
    /\ fpc = "text"
    /\ fquery' = parse(filters, text)
    /\ fpc' = "parsed"
    /\ UNCHANGED <<filters, text, out, requery, fitem, verdict>>
    /\ UNCHANGED notFiltering

Serialise ==
    /\ fpc = "parsed"
    /\ out' = toString(filters, fquery)
    /\ fpc' = "written"
    /\ UNCHANGED <<filters, text, fquery, requery, fitem, verdict>>
    /\ UNCHANGED notFiltering

Reparse ==
    /\ fpc = "written"
    /\ requery' = parse(filters, out)
    /\ fpc' = "reparsed"
    /\ UNCHANGED <<filters, text, fquery, out, fitem, verdict>>
    /\ UNCHANGED notFiltering

Test(it) ==
    /\ fpc = "parsed"
    /\ fitem' = it
    /\ verdict' = getFilterPredicate(filters, fquery, it)
    /\ fpc' = "tested"
    /\ UNCHANGED <<filters, text, fquery, out, requery>>
    /\ UNCHANGED notFiltering

FilteringIdle ==
    /\ filters = "history"
    /\ text = <<>>
    /\ fquery = EmptyQuery
    /\ out = <<>>
    /\ requery = EmptyQuery
    /\ fitem = NoItem
    /\ verdict = FALSE
    /\ fpc = "idle"

FilteringStart ==
    /\ filters \in FilterSets
    /\ text \in FilterTexts(filters)
    /\ fquery = EmptyQuery
    /\ out = <<>>
    /\ requery = EmptyQuery
    /\ fitem = NoItem
    /\ verdict = FALSE
    /\ fpc = "text"

FilteringNext ==
    \/ Parse
    \/ Serialise
    \/ Reparse
    \/ \E it \in Items(filters) : Test(it)

\* ------------------------------------------------------------ specifications
\* the components a specification leaves idle
Others == OptionsIdle /\ ToolPanelIdle /\ FilteringIdle
Providers == BroadcastsIdle /\ ProviderIdle /\ StoreProviderIdle

\* the broadcasts store
Init == BroadcastsInit /\ ProviderIdle /\ StoreProviderIdle /\ Others
Next == BroadcastsNext
Spec == Init /\ [][Next]_vars

\* the basic provider
ProviderInit == BroadcastsIdle /\ ProviderIdle /\ StoreProviderIdle /\ Others
ProviderSpec == ProviderInit /\ [][ProviderNext]_vars

\* the store-backed provider
StoreProviderInit == BroadcastsIdle /\ ProviderIdle /\ StoreProviderIdle /\ Others
StoreProviderSpec == StoreProviderInit /\ [][StoreProviderNext]_vars

\* the workflow editor toolbar
OptionsInit == Providers /\ OptionsStart /\ ToolPanelIdle /\ FilteringIdle
OptionsSpec == OptionsInit /\ [][OptionsNext]_vars

\* the tool panel
ToolPanelInit == Providers /\ OptionsIdle /\ ToolPanelStart /\ FilteringIdle
ToolPanelSpec == ToolPanelInit /\ [][ToolPanelNext]_vars /\ ToolPanelFairness

\* the filter query language
FilteringInit == Providers /\ OptionsIdle /\ ToolPanelIdle /\ FilteringStart
FilteringSpec == FilteringInit /\ [][FilteringNext]_vars

\* ------------------------------------------- properties: broadcasts store
\* an expiration_time that lies before the current time
Past(e) == e # NoExp /\ e < now
NoneExpired(s) == \A i \in DOMAIN s : ~Past(s[i].expiration_time)

\* C1: immediately after any updateBroadcasts(list), whatever the list held
\* and whatever list came in, broadcasts holds no broadcast whose
\* expiration_time is earlier than the current time.
C1_UpdateLeavesNoExpired ==
    last.op = "update" => NoneExpired(broadcasts)

\* an update has just filtered an expired broadcast out and kept another
C1_Witness ==
    /\ last.op = "update"
    /\ last.dropped
    /\ broadcasts # <<>>

\* C2: once dismissBroadcast(b) was called, b.id is in activeBroadcasts in no
\* later state reached before b's expiration_time has passed, whatever
\* loadBroadcasts and updateBroadcasts bring in.
C2_DismissedStaysOut ==
    \A bid \in DOMAIN dismissedHere :
        ~Past(dismissedHere[bid]) => bid \notin IdsOf(activeBroadcasts)

\* a load has just brought in a broadcast dismissed before and not expired
C2_Witness ==
    /\ last.op = "loadFulfil"
    /\ \E bid \in DOMAIN dismissedHere :
          /\ ~Past(dismissedHere[bid])
          /\ bid \in IdsOf(last.data)
          /\ bid \in IdsOf(broadcasts)
          /\ bid \notin IdsOf(activeBroadcasts)

\* C3 as the spec states it: once the store is set up, activeBroadcasts never
\* holds a broadcast whose expiration_time is in the past.
C3_Original ==
    initialised => NoneExpired(activeBroadcasts)

\* C3, amended: activeBroadcasts holds no broadcast whose expiration_time is
\* in the past right after the setup and right after every updateBroadcasts,
\* and dismissBroadcast, a started load and a failed load keep it so; a
\* fulfilled load and the passing of time are the steps that can bring one in.
C3_AbsentAfterSetupAndUpdate ==
    [][/\ last'.op \in {"setup", "update"} => NoneExpired(activeBroadcasts')
       /\ (last'.op \in {"dismiss", "loadStart", "loadReject"}
              /\ NoneExpired(activeBroadcasts))
            => NoneExpired(activeBroadcasts')]_vars

\* an update has just dropped an expired broadcast while a dismissal is held
C3_Witness ==
    /\ initialised
    /\ last.op = "update"
    /\ last.dropped
    /\ now > 0
    /\ NoneExpired(activeBroadcasts)
    /\ DOMAIN dismissedBroadcasts # {}

\* C4: in every state, broadcasts holds at most one entry per id and is
\* ordered by create_time descending.
C4_OnePerIdAndDescending ==
    /\ Cardinality(IdsOf(broadcasts)) = Len(broadcasts)
    /\ \A i, j \in DOMAIN broadcasts :
          i < j => broadcasts[i].create_time >= broadcasts[j].create_time

\* a load has just stored a response that came in ascending order
C4_Witness ==
    /\ last.op = "loadFulfil"
    /\ Len(last.data) = 2
    /\ last.data[1].create_time < last.data[2].create_time
    /\ Len(broadcasts) = 2

\* C5: right after a fetch of loadBroadcasts is fulfilled, broadcasts is
\* exactly the content of that response (one entry per id of the response,
\* each an entry of the response, nothing else), whether or not the fetch
\* was overtaken by one started later: the response fulfilled last wins.
C5_LastFulfilledWins ==
    last.op = "loadFulfil" =>
        /\ IdsOf(broadcasts) = IdsOf(last.data)
        /\ Range(broadcasts) \subseteq Range(last.data)
        /\ Len(broadcasts) = Cardinality(IdsOf(last.data))

\* two loads overlapped, the younger settled first, the older was fulfilled
\* last, and both have settled
C5_Witness ==
    /\ last.op = "loadFulfil"
    /\ last.late
    /\ fetches = <<>>
    /\ broadcasts # <<>>
    /\ Range(broadcasts) \subseteq Range(last.data)

\* C6: the setup runs clearExpiredDismissedBroadcasts once, and the map it
\* leaves holds exactly the records whose expiration_time had not passed at
\* that moment, each unchanged; the run count stays at one afterwards.
C6_SetupPurgesExpiredOnly ==
    [][/\ (~initialised /\ initialised') =>
            /\ clearRuns' = 1
            /\ DOMAIN dismissedBroadcasts' =
                   {k \in DOMAIN dismissedBroadcasts :
                        ~Past(dismissedBroadcasts[k])}
            /\ \A k \in DOMAIN dismissedBroadcasts' :
                   dismissedBroadcasts'[k] = dismissedBroadcasts[k]
       /\ initialised => (initialised' /\ clearRuns' = 1)]_vars

\* the setup has just purged an expired record and kept another
C6_Witness ==
    /\ last.op = "setup"
    /\ last.dropped
    /\ DOMAIN dismissedBroadcasts # {}
    /\ clearRuns = 1

\* --------------------------------------------- properties: basic provider
\* C7: the provider starts with loading = false and item = null; its creation
\* starts a load (loading = true, one get in flight for the id); a resolved
\* get sets item to the response data and loading to false; every change of
\* the id prop to another value starts a new load for the new id, and an
\* update of the prop to the value it has starts none.
C7_ProviderLifecycle ==
    /\ [](~created => (~loading /\ item = Null /\ requests = <<>>))
    /\ [][/\ (~created /\ created') =>
               /\ loading'
               /\ item' = Null
               /\ requests' = <<Request("get", id')>>
          /\ plast'.op = "loadResolve" =>
               (item' = plast'.data /\ ~loading')
          /\ (created /\ id' # id) =>
               /\ loading'
               /\ requests' = Append(requests, Request("get", id'))
          /\ (created /\ plast'.op = "setId" /\ id' = id) =>
               /\ requests' = requests
               /\ loading' = loading
               /\ item' = item]_vars

\* after a successful load the prop was set to the value it had: nothing is
\* in flight, loading is false and the item is the one loaded
C7_Witness ==
    /\ plast.op = "setId"
    /\ requests = <<>>
    /\ ~loading
    /\ item # Null
    /\ item.url = id

\* C8: a get that resolves after a younger call has settled, for another id
\* than the current one, is not ignored: item becomes its data and loading
\* false, although the id prop names another resource.
C8_StaleResponseWins ==
    (plast.op = "loadResolve" /\ plast.late /\ plast.url # id) =>
        /\ item = plast.data
        /\ item.url = plast.url
        /\ ~loading

\* the id went from A to B while A's get was pending, B's data arrived and
\* was shown, then A's get resolved: the provider shows A under id B
C8_Witness ==
    /\ plast.op = "loadResolve"
    /\ plast.late
    /\ plast.before # Null
    /\ plast.before.url = id
    /\ requests = <<>>
    /\ item # Null
    /\ item.url # id
    /\ ~loading

\* C9: save(newProps) leaves item as it is when it issues the put (loading
\* becomes true), a resolved put replaces item by the response data (loading
\* becomes false), and a rejected put leaves item as it is.
C9_SaveReplacesOnSuccessOnly ==
    [][/\ plast'.op = "save" => (item' = item /\ loading')
       /\ plast'.op = "saveResolve" => (item' = plast'.data /\ ~loading')
       /\ plast'.op = "saveReject" => (item' = item /\ plast'.thrown)]_vars

\* the put of a save on a loaded item has just been rejected
C9_Witness ==
    /\ plast.op = "saveReject"
    /\ item # Null
    /\ item = plast.before
    /\ requests = <<>>

\* -------------------------------------- properties: store-backed provider
\* C10: a load whose store action has settled leaves loading = false; when
\* the action threw, error is the error thrown and load() itself does not
\* reject; when it resolved, error is null, whatever error was there before.
C10_LoadSettlesWithErrorField ==
    /\ slast.op = "resolve" =>
          (~sloading /\ error = NoError /\ ~slast.thrown)
    /\ slast.op = "reject" =>
          (~sloading /\ error = slast.err /\ ~slast.thrown)

\* a successful load has just cleared the error of an earlier failed one
C10_Witness ==
    /\ slast.op = "resolve"
    /\ slast.before # NoError
    /\ error = NoError
    /\ ~sloading

\* ------------------------------- properties: broadcasts store, continued
\* C11: loadingBroadcasts is true right after loadBroadcasts starts and
\* false right after its fetch settles, fulfilled or rejected; a rejected
\* fetch leaves broadcasts as it was.
C11_LoadingFlagAroundFetch ==
    [][/\ last'.op = "loadStart" => loadingBroadcasts'
       /\ last'.op \in {"loadFulfil", "loadReject"} => ~loadingBroadcasts'
       /\ last'.op = "loadReject" => broadcasts' = broadcasts]_vars

\* a fetch has just been rejected while the store held broadcasts
C11_Witness ==
    /\ last.op = "loadReject"
    /\ ~loadingBroadcasts
    /\ broadcasts # <<>>
    /\ fetches = <<>>

\* C16: once the store is set up no step removes a dismissal record:
\* dismissBroadcast(b) sets the record of b.id to b's expiration_time, leaves
\* every other record and the broadcasts list as they were; a load (started,
\* fulfilled or rejected) and updateBroadcasts leave the map as it was; and an
\* id that has a record is not in activeBroadcasts after any step.
C16_DismissalsOnlyGrow ==
    [][initialised =>
         /\ DOMAIN dismissedBroadcasts \subseteq DOMAIN dismissedBroadcasts'
         /\ last'.op = "dismiss" =>
               LET b == last'.data[1]
               IN /\ DOMAIN dismissedBroadcasts' =
                         DOMAIN dismissedBroadcasts \cup {b.id}
                  /\ dismissedBroadcasts'[b.id] = b.expiration_time
                  /\ \A k \in DOMAIN dismissedBroadcasts \ {b.id} :
                         dismissedBroadcasts'[k] = dismissedBroadcasts[k]
                  /\ broadcasts' = broadcasts
         /\ last'.op \in {"loadStart", "loadFulfil", "loadReject", "update"} =>
               dismissedBroadcasts' = dismissedBroadcasts
         /\ \A k \in DOMAIN dismissedBroadcasts :
               k \notin IdsOf(activeBroadcasts')]_vars

\* a broadcast on show has just been dismissed beside an older dismissal
C16_Witness ==
    /\ last.op = "dismiss"
    /\ last.data[1].id \in IdsOf(broadcasts)
    /\ Cardinality(DOMAIN dismissedBroadcasts) = 2
    /\ activeBroadcasts # broadcasts

\* C18: nothing without an expiration_time is treated as expired: what
\* updateBroadcasts filters out of the merged list and what the setup's
\* clearExpiredDismissedBroadcasts purges always has an expiration_time,
\* and a record without one survives the setup, at whatever time.
C18_NoExpirationNeverExpires ==
    [][/\ last'.op \in {"update", "setup"} => NoExp \notin last'.lost
       /\ (~initialised /\ initialised') =>
             \A k \in DOMAIN dismissedBroadcasts :
                 dismissedBroadcasts[k] = NoExp =>
                     /\ k \in DOMAIN dismissedBroadcasts'
                     /\ dismissedBroadcasts'[k] = NoExp]_vars

\* at the latest time, an update has just dropped an expired broadcast and
\* kept one that has no expiration_time
C18_Witness ==
    /\ last.op = "update"
    /\ now = MaxTime
    /\ last.lost # {}
    /\ \E i \in DOMAIN broadcasts : broadcasts[i].expiration_time = NoExp

\* ------------------------------------ properties: basic provider, continued
\* C14 as the spec states it: when a load or save fails, loading is true
\* afterwards.
C14_Original ==
    plast.op \in {"loadReject", "saveReject"} => loading

\* C14, amended: a failed load or save changes neither loading nor item and
\* rejects its promise, so loading stays true unless another call of the
\* provider had resolved before the failure, and item stays null if nothing
\* was loaded or saved before; loading goes from true to false only in a step
\* in which a load or a save resolves.
C14_FailureLeavesLoadingAndItem ==
    [][/\ plast'.op \in {"loadReject", "saveReject"} =>
             (loading' = loading /\ item' = item /\ plast'.thrown)
       /\ (loading /\ ~loading') =>
             plast'.op \in {"loadResolve", "saveResolve"}]_vars

\* the first load has just failed: nothing in flight, loading still true,
\* item still null
C14_Witness ==
    /\ plast.op = "loadReject"
    /\ requests = <<>>
    /\ loading
    /\ item = Null

\* -------------------------------------- properties: workflow editor toolbar
\* C15: a click on save while hasInvalidConnections is true emits nothing and
\* opens the confirm dialog; a dialog that resolves false emits nothing; an
\* event is emitted only by a click without invalid connections or by a
\* dialog that resolves true, and then it is exactly one event: onCreate if
\* isNewTempWorkflow is true in that step, onSave otherwise.
C15_SaveEmitsOnceAfterConfirm ==
    [][/\ (olast'.op = "click" /\ hasInvalidConnections)
          => (events' = events /\ dialogs' = Append(dialogs, isNewTempWorkflow))
       /\ (olast'.op = "confirm" /\ ~olast'.confirmed) => events' = events
       /\ events' # events
          => /\ events' = Append(events, IF isNewTempWorkflow THEN "onCreate"
                                                              ELSE "onSave")
             /\ \/ olast'.op = "click" /\ ~hasInvalidConnections
                \/ olast'.op = "confirm" /\ olast'.confirmed]_vars

\* a dialog opened for a new workflow was confirmed after the workflow had
\* stopped being new, and onSave was emitted
C15_Witness ==
    /\ olast.op = "confirm" /\ olast.confirmed /\ olast.atClick
    /\ ~isNewTempWorkflow
    /\ events = <<"onSave">>

\* ------------------------------------------------- properties: tool panel
\* C17: once the api/tool_panels request has settled, arePanelsFetched
\* eventually becomes true, whether the request and the tool initialisation
\* succeeded or failed; it never returns to false; after a failed request
\* the flag is true and defaultPanelView and panelViews have their initial
\* values.
C17_PanelsEventuallyFetched ==
    /\ (chain \notin {"unmounted", "request"}) ~> arePanelsFetched
    /\ [][arePanelsFetched => arePanelsFetched']_vars
    /\ [](chain = "failed" => /\ arePanelsFetched
                              /\ defaultPanelView = ""
                              /\ panelViews = PanelsNull)

\* the request failed, the flag is set, and the watcher has started
\* initializeTools for an emptied currentPanelView
C17_Witness ==
    /\ chain = "failed" /\ arePanelsFetched
    /\ currentPanelView = NoView /\ inits # <<>>

====
